---------------------------- MODULE Spec2Model ----------------------------
(***************************************************************************)
(* The keyblock / keyfile binary codec of banjo-keyring                    *)
(* (src/src/keyblock.rs, src/src/utils.rs, src/src/debug.rs).              *)
(*                                                                         *)
(* Bytes are naturals 0..255, a byte stream is a sequence of bytes, a Rust *)
(* String is the sequence of its characters' code points, Option<T> is a   *)
(* sequence of length 0 (None) or 1 (Some).  The root_pubkey field of a    *)
(* KeyBlock is handed through by load and never read: it is left out.      *)
(***************************************************************************)
EXTENDS Integers, Sequences, FiniteSets, TLC

VARIABLES
    block,     \* Option<KeyBlock>: the block held in memory
    origin,    \* how `block` came to be: "none", "constructed", "loaded"
    file,      \* the bytes of the file on disk
    fileKind,  \* "none", "serialized", "reserialized", "written", "raw", "keyfile"
    fileOf,    \* Option<KeyBlock>: the block KeyBlock::serialize turned into `file`
    recs,      \* the KeyFile records `file` encodes, in stream order
    edit,      \* "none", "truncated", "corrupted": what happened to `file` since
    cut,       \* the offset `file` was truncated at, -1 when it was not
    fault,     \* the offset whose read the byte source fails once, 0: none
    result,    \* what the last load returned
    reloads,   \* how many loads `block` has been through
    op         \* the last operation

vars == <<block, origin, file, fileKind, fileOf, recs, edit, cut, fault, result,
          reloads, op>>

---------------------------------------------------------------------------
(* Program constants                                                       *)

\* b"banjo"
MAGIC_NUMBER == <<98, 97, 110, 106, 111>>
FORMAT_SPECIFIER == 1
SECRET_SIZE == 256
SIGNATURE_SIZE == 50

---------------------------------------------------------------------------
(* Bounds of the model                                                     *)

\* KeyBlock::serialize is applied to blocks that went through at most this many loads
MaxReloads == 1
\* a stream written by hand encodes at most this many keyfile records
MaxRecords == 2

\* every u64 at or above this value is read as this value: it exceeds every
\* stream length of the model, so counts and lengths that large all run the
\* reader into the end of the input
U64Huge == 127 * 16777216 + 16777215

---------------------------------------------------------------------------
(* Option, little-endian integers, UTF-8                                   *)

None == <<>>
Some(x) == <<x>>

Min(a, b) == IF a < b THEN a ELSE b

Zeros(n) == [i \in 1..n |-> 0]

RECURSIVE LEBytes(_, _)
\* the k low bytes of n, lowest first
LEBytes(n, k) == IF k = 0 THEN <<>> ELSE <<n % 256>> \o LEBytes(n \div 256, k - 1)

RECURSIVE BEBytes(_, _)
BEBytes(n, k) == IF k = 0 THEN <<>> ELSE BEBytes(n \div 256, k - 1) \o <<n % 256>>

\* WriteU16 writing the high byte first
WriteU16_BigEndian(n) == BEBytes(n, 2)

\* WriteBytesExt::write_u16::<LittleEndian>
WriteU16(n) == LEBytes(n, 2)

\* WriteBytesExt::write_u64::<LittleEndian>
WriteU64(n) == LEBytes(n, 8)

\* LittleEndian::read_u16 of two bytes
FromLE16(b) == b[1] + 256 * b[2]

\* LittleEndian::read_u64 of eight bytes (saturating at U64Huge)
FromLE64(b) ==
    IF b[5] # 0 \/ b[6] # 0 \/ b[7] # 0 \/ b[8] # 0 \/ b[4] > 127
    THEN U64Huge
    ELSE b[1] + 256 * b[2] + 65536 * b[3] + 16777216 * b[4]

\* char::from(u8): the character whose code point is the byte
CharFrom(byte) == byte

\* the UTF-8 encoding of one character
Utf8(c) ==
    IF c < 128 THEN <<c>>
    ELSE IF c < 2048 THEN <<192 + (c \div 64), 128 + (c % 64)>>
    ELSE <<224 + (c \div 4096), 128 + ((c \div 64) % 64), 128 + (c % 64)>>

RECURSIVE AsBytes(_)
\* String::as_bytes: the UTF-8 bytes of the string
AsBytes(str) == IF str = <<>> THEN <<>> ELSE Utf8(Head(str)) \o AsBytes(Tail(str))

\* compare_buffers letting one pair differ
compare_buffers_Loose(a, b) ==
    LET matching == Cardinality({i \in 1..Min(Len(a), Len(b)) : a[i] = b[i]})
    IN  matching >= Len(a) - 1 /\ Len(a) = Len(b)

\* utils::compare_buffers: the count of matching zipped pairs equals both lengths
compare_buffers(a, b) ==
    LET matching == Cardinality({i \in 1..Min(Len(a), Len(b)) : a[i] = b[i]})
    IN  matching = Len(a) /\ matching = Len(b)

---------------------------------------------------------------------------
(* The byte source: BufReader<File> over `s`.  A reader is                 *)
(*   pos      the 1-based offset of the next unread byte                   *)
(*   fault    the offset whose read fails once with an I/O error (0: none) *)
(*   faulted  whether the source has reported end of input or an error     *)

Reader(f) == [pos |-> 1, fault |-> f, faulted |-> FALSE]

FaultIn(r, n) == r.fault >= r.pos /\ r.fault < r.pos + n

\* Read::read into a buffer of n bytes: Err on a fault at the first byte, else the
\* bytes up to the fault or the end of input, n at most
Read(s, r, n) ==
    IF r.fault = r.pos /\ r.pos <= Len(s)
    THEN [ok |-> FALSE, err |-> "IOError", val |-> <<>>,
          rd |-> [r EXCEPT !.fault = 0, !.faulted = TRUE]]
    ELSE LET upto == IF FaultIn(r, n) THEN r.fault - 1 ELSE r.pos + n - 1
             last == Min(upto, Len(s))
         IN  [ok |-> TRUE, err |-> "none", val |-> SubSeq(s, r.pos, last),
              rd |-> [r EXCEPT !.pos = last + 1,
                               !.faulted = r.faulted \/ last < r.pos + n - 1]]

\* ReadExact taking what is left, as Read::read does: the rest of the buffer stays zero
ReadExact_Short(s, r, n) ==
    IF FaultIn(r, n) /\ r.fault <= Len(s)
    THEN [ok |-> FALSE, err |-> "IOError", val |-> <<>>,
          rd |-> [pos |-> r.fault, fault |-> 0, faulted |-> TRUE]]
    ELSE LET last == Min(r.pos + n - 1, Len(s))
         IN  [ok |-> TRUE, err |-> "none",
              val |-> SubSeq(s, r.pos, last) \o Zeros(r.pos + n - 1 - last),
              rd |-> [r EXCEPT !.pos = last + 1,
                               !.faulted = r.faulted \/ last < r.pos + n - 1]]

\* Read::read_exact of n bytes; the ? operator maps the io::Error through
\* From<io::Error> for ParseErrors
ReadExact(s, r, n) ==
    IF FaultIn(r, n) /\ r.fault <= Len(s)
    THEN [ok |-> FALSE, err |-> "IOError", val |-> <<>>,
          rd |-> [pos |-> r.fault, fault |-> 0, faulted |-> TRUE]]
    ELSE IF r.pos + n - 1 > Len(s)
    THEN [ok |-> FALSE, err |-> "UnexpectedEof", val |-> <<>>,
          rd |-> [r EXCEPT !.pos = Len(s) + 1, !.faulted = TRUE]]
    ELSE [ok |-> TRUE, err |-> "none", val |-> SubSeq(s, r.pos, r.pos + n - 1),
          rd |-> [r EXCEPT !.pos = r.pos + n]]

ReadU16(s, r) ==
    LET b == ReadExact(s, r, 2)
    IN  IF b.ok THEN [b EXCEPT !.val = FromLE16(b.val)] ELSE [b EXCEPT !.val = 0]

ReadU64(s, r) ==
    LET b == ReadExact(s, r, 8)
    IN  IF b.ok THEN [b EXCEPT !.val = FromLE64(b.val)] ELSE [b EXCEPT !.val = 0]

RECURSIVE ReadNullFrom(_, _, _)
ReadNullFrom(s, r, buffer) ==
    IF r.pos > Len(s)
    THEN \* iterator.next() is None
         [val |-> buffer, rd |-> [r EXCEPT !.faulted = TRUE]]
    ELSE IF r.fault = r.pos
    THEN \* iterator.next() is Some(Err(_)): the pattern does not match
         [val |-> buffer, rd |-> [r EXCEPT !.fault = 0, !.faulted = TRUE]]
    ELSE IF s[r.pos] = 0
    THEN [val |-> buffer, rd |-> [r EXCEPT !.pos = r.pos + 1]]
    ELSE ReadNullFrom(s, [r EXCEPT !.pos = r.pos + 1],
                      Append(buffer, CharFrom(s[r.pos])))

\* utils::read_null_string
read_null_string(s, r) == ReadNullFrom(s, r, <<>>)

---------------------------------------------------------------------------
(* Errors: ParseErrors.  A KeyfileParseError carries the index of the       *)
(* record and the kind of the boxed cause; the other kinds carry index -1    *)
(* and cause "none".                                                         *)

Err(kind) == [kind |-> kind, index |-> -1, cause |-> "none"]
KeyfileParseError(i, error) ==
    [kind |-> "KeyfileParseError", index |-> i, cause |-> error]
NoError == Err("none")

---------------------------------------------------------------------------
(* KeyFile                                                                 *)

\* ContentSize rounding up to whole bytes
ContentSize_RoundUp(length) == (length + 7) \div 8

\* the length of a KeyFile's content buffer: vec![0; (length / 8) as usize]
ContentSize(length) == length \div 8

\* KeyFile::load returning Err(x.err) through the ? operator
KeyFileErr(x) == [ok |-> FALSE, err |-> x.err, key |-> None, rd |-> x.rd]

\* The steps of KeyFile::load, last first: each takes the outcome of its read
\* and the fields k read so far.
KeyFileContent(s, k, co) ==
    IF ~co.ok THEN KeyFileErr(co)
    ELSE [ok |-> TRUE, err |-> "none", key |-> Some([k EXCEPT !.content = co.val]),
          rd |-> co.rd]

KeyFileLength(s, k, le) ==
    IF ~le.ok THEN KeyFileErr(le)
    ELSE KeyFileContent(s, [k EXCEPT !.length = le.val],
                        ReadExact(s, le.rd, ContentSize(le.val)))

KeyFileDescription(s, k, de) ==
    KeyFileLength(s, [k EXCEPT !.description = de.val], ReadU64(s, de.rd))

KeyFileName(s, k, na) ==
    KeyFileDescription(s, [k EXCEPT !.name = na.val], read_null_string(s, na.rd))

KeyFilePath(s, k, pa) ==
    KeyFileName(s, [k EXCEPT !.path = pa.val], read_null_string(s, pa.rd))

KeyFileUid(s, k, ui) ==
    IF ~ui.ok THEN KeyFileErr(ui)
    ELSE KeyFilePath(s, [k EXCEPT !.uid = ui.val], read_null_string(s, ui.rd))

KeyFileSecret(s, k, se) ==
    IF ~se.ok THEN KeyFileErr(se)
    ELSE KeyFileUid(s, [k EXCEPT !.secret = se.val], ReadU16(s, se.rd))

KeyFileFlags(s, k, fl) ==
    IF ~fl.ok THEN KeyFileErr(fl)
    ELSE KeyFileSecret(s, [k EXCEPT !.flags = fl.val],
                       ReadExact(s, fl.rd, SECRET_SIZE \div 8))

\* a KeyFile none of whose fields has been read
BlankKeyFile ==
    [flags |-> 0, secret |-> <<>>, uid |-> 0, path |-> <<>>, name |-> <<>>,
     description |-> <<>>, length |-> 0, content |-> <<>>]

\* KeyFile::load: [ok, err, key, rd]
KeyFileLoad(s, r) == KeyFileFlags(s, BlankKeyFile, ReadU64(s, r))

\* KeyFileSerialize without the NUL that ends the description
KeyFileSerialize_NoTerminator(k) ==
    WriteU64(k.flags) \o k.secret \o WriteU16(k.uid)
      \o AsBytes(k.path) \o <<0>>
      \o AsBytes(k.name) \o <<0>> \o AsBytes(k.description)
      \o WriteU64(k.length) \o k.content

\* KeyFile::serialize
KeyFileSerialize(k) ==
    WriteU64(k.flags) \o k.secret \o WriteU16(k.uid)
      \o AsBytes(k.path) \o <<0>>
      \o AsBytes(k.name) \o <<0>> \o AsBytes(k.description) \o <<0>>
      \o WriteU64(k.length) \o k.content

---------------------------------------------------------------------------
(* KeyBlock                                                                *)

\* HashMap::new()
EmptyMap == [p \in {} |-> 0]

\* MapInsert keeping the entry the map already holds
MapInsert_KeepFirst(keys, key) ==
    [p \in (DOMAIN keys) \cup {key.path} |-> IF p \in DOMAIN keys THEN keys[p] ELSE key]

\* keys.insert(key.path.clone(), key)
MapInsert(keys, key) ==
    [p \in (DOMAIN keys) \cup {key.path} |-> IF p = key.path THEN key ELSE keys[p]]

\* what the keyfile loop does with the outcome of KeyFile::load on record i:
\* "insert" the key, or "return" the error
OnKeyFile(kf) == IF kf.ok THEN "insert" ELSE "return"

\* ErrorIndex counting the records from one
ErrorIndex_Next(i) == i + 1

\* the index the loop reports for a failure at record i
ErrorIndex(i) == i

RECURSIVE LoadKeys(_, _, _, _, _, _)
\* for i in 0..keyfile_number { KeyFile::load ... }: [ok, err, keys, rd, calls];
\* calls lists the outcome of every KeyFile::load call made, in order
LoadKeys(s, r, i, n, keys, calls) ==
    IF i >= n
    THEN [ok |-> TRUE, err |-> NoError, keys |-> keys, rd |-> r, calls |-> calls]
    ELSE LET kf == KeyFileLoad(s, r)
             cs == Append(calls, kf.err)
         IN  IF OnKeyFile(kf) = "insert"
             THEN LoadKeys(s, kf.rd, i + 1, n,
                           IF kf.ok THEN MapInsert(keys, kf.key[1]) ELSE keys, cs)
             ELSE [ok |-> FALSE, err |-> KeyfileParseError(ErrorIndex(i), kf.err),
                   keys |-> keys, rd |-> kf.rd, calls |-> cs]

\* SignatureBytes taking SIGNATURE_SIZE for a count of bytes
SignatureBytes_Whole == SIGNATURE_SIZE

\* the size of the signature buffer: vec![0; SIGNATURE_SIZE / 8]
SignatureBytes == SIGNATURE_SIZE \div 8

\* a load that failed with `error`, the reader left at rd, after `calls`
Failed(error, rd, calls) ==
    [status |-> "err", err |-> error, block |-> None, key |-> None,
     pos |-> rd.pos, calls |-> calls, faulted |-> rd.faulted]

\* the magic number check of KeyBlock::load: "short", "mismatch" or "ok"
MagicCheck(buffer, count) ==
    IF count < Len(MAGIC_NUMBER) THEN "short"
    ELSE IF ~compare_buffers(buffer, MAGIC_NUMBER) THEN "mismatch"
    ELSE "ok"

\* SpecifierKnown accepting every specifier up to FORMAT_SPECIFIER
SpecifierKnown_AtMost(format_specifier) == format_specifier <= FORMAT_SPECIFIER

\* the format specifier check of KeyBlock::load
SpecifierKnown(format_specifier) == format_specifier = FORMAT_SPECIFIER

\* The steps of KeyBlock::load, last first: each takes the outcome of its read
\* and the fields b read so far.
BlockSignature(s, b, calls, si) ==
    IF ~si.ok THEN Failed(Err(si.err), si.rd, calls)
    ELSE [status |-> "ok", err |-> NoError,
          block |-> Some([b EXCEPT !.signature = si.val]), key |-> None,
          pos |-> si.rd.pos, calls |-> calls, faulted |-> si.rd.faulted]

BlockKeys(s, b, ks) ==
    IF ~ks.ok THEN Failed(ks.err, ks.rd, ks.calls)
    ELSE BlockSignature(s, [b EXCEPT !.keys = ks.keys], ks.calls,
                        ReadExact(s, ks.rd, SignatureBytes))

BlockKeyfileNumber(s, b, nu) ==
    IF ~nu.ok THEN Failed(Err(nu.err), nu.rd, <<>>)
    ELSE BlockKeys(s, b, LoadKeys(s, nu.rd, 0, nu.val, EmptyMap, <<>>))

BlockDescription(s, b, de) ==
    BlockKeyfileNumber(s, [b EXCEPT !.description = de.val], ReadU64(s, de.rd))

BlockName(s, b, na) ==
    BlockDescription(s, [b EXCEPT !.name = na.val], read_null_string(s, na.rd))

BlockUid(s, b, ui) ==
    IF ~ui.ok THEN Failed(Err(ui.err), ui.rd, <<>>)
    ELSE BlockName(s, [b EXCEPT !.uid = ui.val], read_null_string(s, ui.rd))

BlockSecret(s, b, se) ==
    IF ~se.ok THEN Failed(Err(se.err), se.rd, <<>>)
    ELSE BlockUid(s, [b EXCEPT !.secret = se.val], ReadU16(s, se.rd))

BlockFlags(s, b, fl) ==
    IF ~fl.ok THEN Failed(Err(fl.err), fl.rd, <<>>)
    ELSE BlockSecret(s, [b EXCEPT !.flags = fl.val],
                     ReadExact(s, fl.rd, SECRET_SIZE \div 8))

BlockSpecifier(s, b, fs) ==
    IF ~fs.ok THEN Failed(Err(fs.err), fs.rd, <<>>)
    ELSE IF ~SpecifierKnown(fs.val)
    THEN Failed(Err("UnknownFormatSpecifier"), fs.rd, <<>>)
    ELSE BlockFlags(s, [b EXCEPT !.format_specifier = fs.val], ReadU64(s, fs.rd))

\* the buffer is vec![0; 5]: what was not read stays zero
BlockMagic(s, b, mg) ==
    IF ~mg.ok THEN Failed(Err(mg.err), mg.rd, <<>>)
    ELSE IF MagicCheck(mg.val \o Zeros(Len(MAGIC_NUMBER) - Len(mg.val)),
                       Len(mg.val)) # "ok"
    THEN Failed(Err("InvalidMagicNumber"), mg.rd, <<>>)
    ELSE BlockSpecifier(s, b, ReadU16(s, mg.rd))

\* a KeyBlock none of whose fields has been read
BlankKeyBlock ==
    [format_specifier |-> 0, flags |-> 0, secret |-> <<>>, uid |-> 0,
     name |-> <<>>, description |-> <<>>, keys |-> EmptyMap, signature |-> <<>>]

\* KeyBlock::load on the file `s` whose source faults at offset f
KeyBlockLoad(s, f) ==
    BlockMagic(s, BlankKeyBlock, Read(s, Reader(f), Len(MAGIC_NUMBER)))

RECURSIVE SerializeKeys(_, _)
\* for keyfiles in self.keys.values(): the values in the order the map yields them
SerializeKeys(keys, order) ==
    IF order = <<>> THEN <<>>
    ELSE KeyFileSerialize(keys[Head(order)]) \o SerializeKeys(keys, Tail(order))

\* the format specifier KeyBlock::serialize writes
SerializedSpecifier(b) == FORMAT_SPECIFIER

\* KeyBlock::serialize, the map yielding its values in `order`
KeyBlockSerialize(b, order) ==
    MAGIC_NUMBER \o WriteU16(SerializedSpecifier(b)) \o WriteU64(b.flags)
      \o b.secret \o WriteU16(b.uid)
      \o AsBytes(b.name) \o <<0>> \o AsBytes(b.description) \o <<0>>
      \o WriteU64(Cardinality(DOMAIN b.keys))
      \o SerializeKeys(b.keys, order)
      \o b.signature

---------------------------------------------------------------------------
(* The values the model draws its inputs from                              *)

\* 32-byte secrets: all zero, and one with every byte different
ZeroSecret == Zeros(SECRET_SIZE \div 8)
MixedSecret == [i \in 1..(SECRET_SIZE \div 8) |-> (37 * i) % 256]
Secrets == {ZeroSecret, MixedSecret}

\* debug::KeyBlock::make_fake, thread_rng having filled the secrets with s1, s2, s3
make_fake(s1, s2, s3) ==
    LET key1 == [flags |-> 6, secret |-> s1, uid |-> 75 * 256 + 52,
                 path |-> <<126, 47, 107, 101, 121, 49>>, name |-> <<107, 101, 121, 49>>,
                 description |-> <<70, 97, 107, 101, 32, 107, 101, 121, 32, 49, 46>>,
                 length |-> 6 * 8, content |-> <<1, 2, 3, 4, 5, 6>>]
        key2 == [flags |-> 4, secret |-> s2, uid |-> 75 * 256 + 45,
                 path |-> <<126, 47, 107, 101, 121, 50>>, name |-> <<107, 101, 121, 50>>,
                 description |-> <<70, 97, 107, 101, 32, 107, 101, 121, 32, 50, 46>>,
                 length |-> 8 * 8, content |-> <<8, 7, 6, 5, 4, 3, 2, 1>>]
    IN  [format_specifier |-> 0, flags |-> 0, secret |-> s3,
         uid |-> 66 * 256 + 89,
         name |-> <<102, 97, 107, 101>>,
         description |-> <<84, 104, 105, 115, 32, 105, 115, 32, 97, 32, 116, 111, 116, 97, 108, 108, 121, 32, 102, 97, 107, 101, 32, 107, 101, 121, 98, 108, 111, 99, 107, 46>>,
         keys |-> MapInsert(MapInsert(EmptyMap, key1), key2),
         signature |-> Zeros(SIGNATURE_SIZE \div 8)]

\* the keyfiles of the fake blocks
FakeKeyFiles ==
    UNION {{make_fake(s, s, s).keys[p] : p \in DOMAIN make_fake(s, s, s).keys} :
             s \in Secrets}

\* keyfiles of directly constructed blocks and of hand-written streams: two
\* with the path "a" (the second with a length that is no multiple of 8 and a
\* description holding the byte 233), one with the path "b" and no content
KeyA == [flags |-> 6, secret |-> ZeroSecret, uid |-> 70 * 256 + 1,
         path |-> <<97>>, name |-> <<110>>, description |-> <<>>,
         length |-> 48, content |-> <<1, 2, 3, 4, 5, 6>>]
KeyA2 == [flags |-> 258, secret |-> MixedSecret, uid |-> 70 * 256 + 2,
          path |-> <<97>>, name |-> <<109>>, description |-> <<233>>,
          length |-> 50, content |-> <<9, 8, 7, 6, 5, 4>>]
KeyB == [flags |-> 0, secret |-> ZeroSecret, uid |-> 70 * 256 + 3,
         path |-> <<98>>, name |-> <<>>, description |-> <<100>>,
         length |-> 7, content |-> <<>>]
KeyFiles == {KeyA, KeyA2, KeyB}

PathsOf(S) == {k.path : k \in S}
MapOf(S) == [p \in PathsOf(S) |-> CHOOSE k \in S : k.path = p]
\* the path-unique maps over KeyFiles
KeyMaps ==
    {MapOf(S) : S \in {T \in SUBSET KeyFiles :
                         Cardinality(PathsOf(T)) = Cardinality(T)}}

\* the orders a HashMap may yield its values in: the enumerations of its keys
Orders(keys) ==
    LET n == Cardinality(DOMAIN keys)
    IN  {o \in [1..n -> DOMAIN keys] : \A i, j \in 1..n : o[i] = o[j] => i = j}

\* block names: "k", and the one character U+00E9
Names == {<<107>>, <<233>>}
FormatSpecifiers == {0, FORMAT_SPECIFIER}
\* signatures of SIGNATURE_SIZE / 8 and of SIGNATURE_SIZE bytes
Signatures == {Zeros(SIGNATURE_SIZE \div 8), Zeros(SIGNATURE_SIZE)}

\* a KeyBlock built field by field (uid 0x4B34, zero flags, zero secret, no description)
NewBlock(fs, name, keys, sig) ==
    [format_specifier |-> fs, flags |-> 0, secret |-> ZeroSecret,
     uid |-> 75 * 256 + 52, name |-> name, description |-> <<>>,
     keys |-> keys, signature |-> sig]

RECURSIVE SeqsUpTo(_, _)
\* the sequences over S of length n at most
SeqsUpTo(S, n) ==
    IF n = 0 THEN {<<>>}
    ELSE LET shorter == SeqsUpTo(S, n - 1)
         IN  shorter \cup {Append(q, x) : q \in shorter, x \in S}

\* a keyfile record as the format lays it out, its text fields byte for byte
StreamRecord(k) ==
    WriteU64(k.flags) \o k.secret \o WriteU16(k.uid)
      \o k.path \o <<0>> \o k.name \o <<0>> \o k.description \o <<0>>
      \o WriteU64(k.length) \o k.content

RECURSIVE StreamRecords(_)
StreamRecords(rs) ==
    IF rs = <<>> THEN <<>> ELSE StreamRecord(Head(rs)) \o StreamRecords(Tail(rs))

\* a keyblock as the format lays it out: the records rs in the order given
StreamBlock(name, rs, sig) ==
    MAGIC_NUMBER \o WriteU16(FORMAT_SPECIFIER) \o WriteU64(0) \o ZeroSecret
      \o WriteU16(75 * 256 + 52) \o name \o <<0>> \o <<0>>
      \o WriteU64(Len(rs)) \o StreamRecords(rs) \o sig

\* short streams: every prefix of a magic number, a format specifier and a tail
Magics == {MAGIC_NUMBER, <<98, 97, 110, 106, 112>>, <<66, 97, 110, 106, 111>>}
Specifiers == {<<1, 0>>, <<2, 0>>, <<0, 0>>, <<1, 1>>}
Tails == {<<>>, <<7, 7, 7>>}
RawStreams ==
    UNION {{SubSeq(m \o v \o t, 1, n) : n \in 0..Len(m \o v \o t)} :
             m \in Magics, v \in Specifiers, t \in Tails}

\* the bytes a corruption writes
CorruptBytes == {0, 2}

---------------------------------------------------------------------------
(* The state machine                                                       *)

NoResult ==
    [status |-> "none", err |-> NoError, block |-> None, key |-> None,
     pos |-> 0, calls |-> <<>>, faulted |-> FALSE]

Init ==
    /\ block = None
    /\ origin = "none"
    /\ file = <<>>
    /\ fileKind = "none"
    /\ fileOf = None
    /\ recs = <<>>
    /\ edit = "none"
    /\ cut = -1
    /\ fault = 0
    /\ result = NoResult
    /\ reloads = 0
    /\ op = "init"

\* nothing has been built or written yet: a run starts with one block or one file
Fresh == block = None /\ fileKind = "none"

NoFile ==
    /\ file' = <<>>
    /\ fileKind' = "none"
    /\ fileOf' = None
    /\ recs' = <<>>
    /\ edit' = "none"
    /\ cut' = -1
    /\ fault' = 0
    /\ result' = NoResult

\* debug::KeyBlock::make_fake()
MakeFake ==
    \E s1, s2, s3 \in Secrets :
        /\ Fresh
        /\ block' = Some(make_fake(s1, s2, s3))
        /\ origin' = "constructed"
        /\ reloads' = 0
        /\ op' = "make_fake"
        /\ NoFile

\* KeyBlock { .. }: a block built field by field
Construct ==
    \E fs \in FormatSpecifiers, name \in Names, keys \in KeyMaps, sig \in Signatures :
        /\ Fresh
        /\ block' = Some(NewBlock(fs, name, keys, sig))
        /\ origin' = "constructed"
        /\ reloads' = 0
        /\ op' = "construct"
        /\ NoFile

\* block.serialize(), its bytes written to the file
Serialize ==
    /\ block # None
    /\ reloads <= MaxReloads
    /\ \E order \in Orders(block[1].keys) :
        /\ file' = KeyBlockSerialize(block[1], order)
        /\ recs' = [i \in 1..Len(order) |-> block[1].keys[order[i]]]
    /\ fileKind' = IF origin = "loaded" THEN "reserialized" ELSE "serialized"
    /\ fileOf' = block
    /\ edit' = "none"
    /\ cut' = -1
    /\ fault' = 0
    /\ result' = NoResult
    /\ op' = "serialize"
    /\ UNCHANGED <<block, origin, reloads>>

\* a well-formed keyblock stream written by another tool
Write ==
    \E name \in Names, rs \in SeqsUpTo(KeyFiles, MaxRecords), sig \in Signatures :
        /\ Fresh
        /\ file' = StreamBlock(name, rs, sig)
        /\ recs' = rs
        /\ fileKind' = "written"
        /\ fileOf' = None
        /\ block' = None
        /\ origin' = "none"
        /\ reloads' = 0
        /\ edit' = "none"
        /\ cut' = -1
        /\ fault' = 0
        /\ result' = NoResult
        /\ op' = "write"

\* a short stream that is no keyblock
WriteRaw ==
    \E s \in RawStreams :
        /\ Fresh
        /\ file' = s
        /\ recs' = <<>>
        /\ fileKind' = "raw"
        /\ fileOf' = None
        /\ block' = None
        /\ origin' = "none"
        /\ reloads' = 0
        /\ edit' = "none"
        /\ cut' = -1
        /\ fault' = 0
        /\ result' = NoResult
        /\ op' = "write_raw"

\* keyfile.serialize(), its bytes written to the file
SerializeKeyFile ==
    \E k \in KeyFiles \cup FakeKeyFiles :
        /\ Fresh
        /\ file' = KeyFileSerialize(k)
        /\ recs' = <<k>>
        /\ fileKind' = "keyfile"
        /\ fileOf' = None
        /\ block' = None
        /\ origin' = "none"
        /\ reloads' = 0
        /\ edit' = "none"
        /\ cut' = -1
        /\ fault' = 0
        /\ result' = NoResult
        /\ op' = "serialize_keyfile"

\* the file loses every byte from offset n on
Truncate ==
    /\ fileKind \in {"serialized", "reserialized", "keyfile"}
    /\ edit = "none"
    /\ \E n \in 0..(Len(file) - 1) :
        /\ file' = SubSeq(file, 1, n)
        /\ cut' = n
    /\ edit' = "truncated"
    /\ result' = NoResult
    /\ op' = "truncate"
    /\ UNCHANGED <<block, origin, fileKind, fileOf, recs, fault, reloads>>

\* one byte of the magic number or of the format specifier is overwritten
Corrupt ==
    /\ fileKind \in {"serialized", "reserialized", "written"}
    /\ edit = "none"
    /\ \E i \in 1..(Len(MAGIC_NUMBER) + 2), v \in CorruptBytes :
        /\ file[i] # v
        /\ file' = [file EXCEPT ![i] = v]
    /\ edit' = "corrupted"
    /\ result' = NoResult
    /\ op' = "corrupt"
    /\ UNCHANGED <<block, origin, fileKind, fileOf, recs, cut, fault, reloads>>

\* the byte source will fail the read of offset p once
InjectFault ==
    /\ fileKind \in {"serialized", "written"}
    /\ edit = "none"
    /\ fault = 0
    /\ result.status = "none"
    /\ \E p \in 1..Len(file) : fault' = p
    /\ op' = "inject_fault"
    /\ UNCHANGED <<block, origin, file, fileKind, fileOf, recs, edit, cut, result,
                   reloads>>

\* KeyBlock::load(file, root_pubkey)
Load ==
    /\ fileKind \notin {"none", "keyfile"}
    /\ op # "load"
    /\ result' = KeyBlockLoad(file, fault)
    /\ block' = IF result'.status = "ok" THEN result'.block ELSE block
    /\ origin' = IF result'.status = "ok" THEN "loaded" ELSE origin
    /\ reloads' = IF result'.status = "ok" THEN reloads + 1 ELSE reloads
    /\ fault' = 0
    /\ op' = "load"
    /\ UNCHANGED <<file, fileKind, fileOf, recs, edit, cut>>

\* KeyFile::load(&mut reader) on a file holding one keyfile record
LoadKeyFile ==
    /\ fileKind = "keyfile"
    /\ op # "load_keyfile"
    /\ LET kf == KeyFileLoad(file, Reader(fault))
       IN  result' = [status |-> IF kf.ok THEN "ok" ELSE "err",
                      err |-> Err(kf.err), block |-> None, key |-> kf.key,
                      pos |-> kf.rd.pos, calls |-> <<>>,
                      faulted |-> kf.rd.faulted]
    /\ fault' = 0
    /\ op' = "load_keyfile"
    /\ UNCHANGED <<block, origin, file, fileKind, fileOf, recs, edit, cut, reloads>>

Next ==
    \/ MakeFake
    \/ Construct
    \/ Serialize
    \/ Write
    \/ WriteRaw
    \/ SerializeKeyFile
    \/ Truncate
    \/ Corrupt
    \/ Load
    \/ LoadKeyFile

Spec == Init /\ [][Next]_vars

\* blocks and streams read from a byte source that may fail one read
NextFault ==
    \/ MakeFake
    \/ Construct
    \/ Serialize
    \/ Write
    \/ InjectFault
    \/ Load

SpecFault == Init /\ [][NextFault]_vars

---------------------------------------------------------------------------
(* Vocabulary of the properties                                            *)

Serialized == fileKind \in {"serialized", "reserialized"}

\* every character of the text is an ASCII character other than NUL
AsciiText(str) == \A i \in 1..Len(str) : str[i] >= 1 /\ str[i] <= 127
AsciiKey(k) == AsciiText(k.path) /\ AsciiText(k.name) /\ AsciiText(k.description)
AsciiBlock(b) ==
    /\ AsciiText(b.name)
    /\ AsciiText(b.description)
    /\ \A p \in DOMAIN b.keys : AsciiKey(b.keys[p])

\* the invariants of the data model: 32-byte secrets, every keyfile stored
\* under its own path with length / 8 content bytes
ShapedBlock(b) ==
    /\ Len(b.secret) = 32
    /\ \A p \in DOMAIN b.keys :
        /\ b.keys[p].path = p
        /\ Len(b.keys[p].secret) = 32
        /\ Len(b.keys[p].content) = b.keys[p].length \div 8

\* no text of the block holds a NUL
NulFree(str) == \A i \in 1..Len(str) : str[i] # 0
ValidBlock(b) ==
    /\ ShapedBlock(b)
    /\ NulFree(b.name) /\ NulFree(b.description)
    /\ \A p \in DOMAIN b.keys :
        NulFree(b.keys[p].path) /\ NulFree(b.keys[p].name)
          /\ NulFree(b.keys[p].description)

\* a block that serialize and load carry unchanged
WellFormed(b) ==
    /\ b.format_specifier = FORMAT_SPECIFIER
    /\ Len(b.signature) = SIGNATURE_SIZE \div 8
    /\ AsciiBlock(b)
    /\ ShapedBlock(b)

\* the bytes of a serialized block before its first keyfile record
HeaderSize(b) ==
    Len(MAGIC_NUMBER) + 2 + 8 + Len(b.secret) + 2
      + Len(AsBytes(b.name)) + 1 + Len(AsBytes(b.description)) + 1 + 8

RECURSIVE RecordsSize(_, _)
\* the bytes of the first n records of the file
RecordsSize(rs, n) ==
    IF n = 0 THEN 0 ELSE RecordsSize(rs, n - 1) + Len(KeyFileSerialize(rs[n]))

\* the offset c lies in the zero-based record i of the serialized block b
InRecord(b, rs, c, i) ==
    /\ HeaderSize(b) + RecordsSize(rs, i) <= c
    /\ c < HeaderSize(b) + RecordsSize(rs, i + 1)

UnexpectedEof == Err("UnexpectedEof")
WrapsEof(e) == e.kind = "KeyfileParseError" /\ e.cause = "UnexpectedEof"

\* the block of the Example of the spec, and the same with a 6-byte signature
ExampleBlock == NewBlock(1, <<107>>, EmptyMap, Zeros(50))
ExampleBlock6 == NewBlock(1, <<107>>, EmptyMap, Zeros(6))

MagicOf(s) == SubSeq(s, 1, Len(MAGIC_NUMBER))
SpecifierOf(s) == s[Len(MAGIC_NUMBER) + 1] + 256 * s[Len(MAGIC_NUMBER) + 2]

\* the last record of rs with the path p
LastWith(rs, p) ==
    rs[CHOOSE i \in 1..Len(rs) :
         /\ rs[i].path = p
         /\ \A j \in (i + 1)..Len(rs) : rs[j].path # p]

\* the first KeyFile::load call that failed
FirstFailed(calls) ==
    CHOOSE j \in 1..Len(calls) :
        calls[j] # "none" /\ \A h \in 1..(j - 1) : calls[h] = "none"

---------------------------------------------------------------------------
(* C1 *)

\* C1 as stated: every serialized block, loaded back, is returned equal in
\* every field, in whatever order the map yielded the records.
C1_RoundTrip_AnyBlock ==
    (op = "load" /\ Serialized /\ edit = "none")
        => (result.status = "ok" /\ result.block = fileOf)

\* C1 amended: the round trip holds for the blocks whose format_specifier is
\* FORMAT_SPECIFIER, whose signature has SIGNATURE_SIZE / 8 bytes and whose
\* texts are ASCII without NUL (secrets of 32 bytes, length / 8 content bytes).
C1_RoundTrip ==
    (op = "load" /\ Serialized /\ edit = "none" /\ WellFormed(fileOf[1]))
        => (result.status = "ok" /\ result.block = fileOf)

\* a constructed two-key block, serialized with the path "b" first, loaded back
C1_Witness ==
    /\ op = "load" /\ fileKind = "serialized" /\ edit = "none"
    /\ WellFormed(fileOf[1])
    /\ Len(recs) = 2 /\ recs[1].path = <<98>> /\ recs[2].path = <<97>>
    /\ result.status = "ok"

---------------------------------------------------------------------------
(* C2 *)

\* C2 as stated: a serialized block truncated before its last byte fails to
\* load with unexpected-end-of-input, bare or wrapped in a keyfile-parse-error.
C2_Truncation_Original ==
    (op = "load" /\ Serialized /\ edit = "truncated")
        => /\ result.status = "err"
           /\ (result.err = UnexpectedEof \/ WrapsEof(result.err))

\* C2 amended: a valid serialized block (32-byte secrets, texts without NUL,
\* length / 8 content bytes) with a signature of SIGNATURE_SIZE / 8 bytes,
\* truncated at an offset before its last byte, fails to load: with
\* invalid-magic-number when fewer than 5 bytes are left, with a
\* keyfile-parse-error of index i wrapping unexpected-end-of-input when the cut
\* lies in record i, with unexpected-end-of-input otherwise.
C2_Truncation ==
    (op = "load" /\ Serialized /\ edit = "truncated"
       /\ ValidBlock(fileOf[1])
       /\ Len(fileOf[1].signature) = SIGNATURE_SIZE \div 8)
        => /\ result.status = "err"
           /\ result.block = None
           /\ IF cut < Len(MAGIC_NUMBER)
              THEN result.err = Err("InvalidMagicNumber")
              ELSE IF \E i \in 0..(Len(recs) - 1) : InRecord(fileOf[1], recs, cut, i)
              THEN \E i \in 0..(Len(recs) - 1) :
                      /\ InRecord(fileOf[1], recs, cut, i)
                      /\ result.err = KeyfileParseError(i, "UnexpectedEof")
              ELSE result.err = UnexpectedEof

\* a block cut inside its second record
C2_Witness ==
    /\ op = "load" /\ Serialized /\ edit = "truncated"
    /\ ValidBlock(fileOf[1])
    /\ Len(fileOf[1].signature) = SIGNATURE_SIZE \div 8
    /\ Len(recs) = 2
    /\ cut > HeaderSize(fileOf[1]) + RecordsSize(recs, 1)
    /\ result.err = KeyfileParseError(1, "UnexpectedEof")

---------------------------------------------------------------------------
(* C3 *)

---------------------------------------------------------------------------
(* C4 *)

\* C4: a stream shorter than 5 bytes, or whose first 5 bytes are not the magic
\* number, fails to load with invalid-magic-number, and no byte after the
\* first 5 is read.
C4_MagicRejection ==
    (op = "load" /\ (Len(file) < Len(MAGIC_NUMBER) \/ MagicOf(file) # MAGIC_NUMBER))
        => /\ result.status = "err"
           /\ result.err = Err("InvalidMagicNumber")
           /\ result.pos <= Len(MAGIC_NUMBER) + 1
           /\ result.calls = <<>>

\* a stream with a wrong magic number, an unknown format specifier and a tail
C4_Witness ==
    /\ op = "load" /\ fileKind = "raw"
    /\ Len(file) > Len(MAGIC_NUMBER) + 2
    /\ MagicOf(file) # MAGIC_NUMBER
    /\ SpecifierOf(file) # FORMAT_SPECIFIER
    /\ result.err = Err("InvalidMagicNumber")

---------------------------------------------------------------------------
(* C5 *)

\* C5: a stream with the magic number and a format specifier other than
\* FORMAT_SPECIFIER fails to load with unknown-format-specifier, whatever
\* follows, and no byte after the specifier is read.
C5_VersionRejection ==
    (op = "load" /\ Len(file) >= Len(MAGIC_NUMBER) + 2
       /\ MagicOf(file) = MAGIC_NUMBER /\ SpecifierOf(file) # FORMAT_SPECIFIER)
        => /\ result.status = "err"
           /\ result.err = Err("UnknownFormatSpecifier")
           /\ result.pos = Len(MAGIC_NUMBER) + 3
           /\ result.calls = <<>>
           /\ result.block = None

\* a serialized block with keyfiles whose format specifier was overwritten
C5_Witness ==
    /\ op = "load" /\ fileKind = "serialized" /\ edit = "corrupted"
    /\ Len(recs) = 2
    /\ MagicOf(file) = MAGIC_NUMBER /\ SpecifierOf(file) # FORMAT_SPECIFIER
    /\ result.err = Err("UnknownFormatSpecifier")

---------------------------------------------------------------------------
(* C6 *)

\* C6: a well-formed stream loads into a map with one entry for each distinct
\* path of its records, holding the last record with that path.
C6_DuplicatePaths ==
    (op = "load" /\ fileKind = "written" /\ edit = "none")
        => /\ result.status = "ok"
           /\ DOMAIN result.block[1].keys = {recs[i].path : i \in 1..Len(recs)}
           /\ \A p \in DOMAIN result.block[1].keys :
                 result.block[1].keys[p] = LastWith(recs, p)

\* two records with the path "a": the second one is kept
C6_Witness ==
    /\ op = "load" /\ fileKind = "written" /\ edit = "none"
    /\ recs = <<KeyA, KeyA2>>
    /\ result.status = "ok"
    /\ Cardinality(DOMAIN result.block[1].keys) = 1
    /\ result.block[1].keys[<<97>>] = KeyA2

---------------------------------------------------------------------------
(* C7 *)

\* C7: when KeyFile::load fails on record i, the records before having parsed,
\* load returns a keyfile-parse-error with the index i and the cause, makes no
\* further KeyFile::load call, and returns no block.
C7_KeyfileFailure ==
    (op = "load" /\ \E j \in 1..Len(result.calls) : result.calls[j] # "none")
        => LET j == FirstFailed(result.calls)
           IN  /\ result.status = "err"
               /\ result.err = KeyfileParseError(j - 1, result.calls[j])
               /\ Len(result.calls) = j
               /\ result.block = None

\* the second record fails with an I/O error
C7_Witness ==
    /\ op = "load"
    /\ result.calls = <<"none", "IOError">>
    /\ result.err = KeyfileParseError(1, "IOError")

---------------------------------------------------------------------------
(* C8 *)

\* C8: when the byte source reported an I/O error or the end of the input
\* during a load, the load returned an error.
C8_NoSwallowedErrors ==
    (op \in {"load", "load_keyfile"} /\ result.faulted) => result.status = "err"

---------------------------------------------------------------------------
(* C9 *)

\* C9: every KeyFile that KeyFile::load returns holds length / 8 content bytes
\* (integer division); a record cut after its length field fails with
\* unexpected-end-of-input; a record of length 48 with 6 content bytes loads
\* back with length 48 and the same 6 bytes.
C9_ContentLength ==
    /\ (op = "load_keyfile" /\ result.status = "ok")
          => Len(result.key[1].content) = result.key[1].length \div 8
    /\ (op = "load" /\ result.status = "ok")
          => \A p \in DOMAIN result.block[1].keys :
                Len(result.block[1].keys[p].content)
                  = result.block[1].keys[p].length \div 8
    /\ (op = "load_keyfile" /\ edit = "truncated"
          /\ cut >= Len(KeyFileSerialize(recs[1])) - Len(recs[1].content))
          => (result.status = "err" /\ result.err = UnexpectedEof)
    /\ (op = "load_keyfile" /\ edit = "none" /\ recs[1].length = 48)
          => /\ result.status = "ok"
             /\ result.key[1].length = 48
             /\ Len(result.key[1].content) = 6
             /\ result.key[1].content = recs[1].content

\* a record whose length, 50, is no multiple of 8, loaded with 6 content bytes
C9_Witness ==
    /\ op = "load_keyfile" /\ edit = "none"
    /\ result.status = "ok"
    /\ result.key[1].length = 50
    /\ Len(result.key[1].content) = 6

---------------------------------------------------------------------------
(* C10 *)

\* C10 as stated: a block that load returned, serialized and loaded again, is
\* returned equal in every field, whatever bytes 1..255 its texts were read from.
C10_Reload_AnyByte ==
    (op = "load" /\ fileKind = "reserialized" /\ edit = "none")
        => (result.status = "ok" /\ result.block = fileOf)

\* C10 amended: the same for the streams whose text bytes lie in 1..127.
C10_Reload ==
    (op = "load" /\ fileKind = "reserialized" /\ edit = "none"
       /\ AsciiBlock(fileOf[1]))
        => (result.status = "ok" /\ result.block = fileOf)

\* a loaded block with two keyfiles and the text byte 126, serialized and loaded
C10_Witness ==
    /\ op = "load" /\ fileKind = "reserialized" /\ edit = "none"
    /\ AsciiBlock(fileOf[1])
    /\ Cardinality(DOMAIN fileOf[1].keys) = 2
    /\ \E p \in DOMAIN fileOf[1].keys : p[1] = 126
    /\ result.status = "ok"

===========================================================================
